---- MODULE Spec2Model ----
(***************************************************************************)
(* RawMemoryRef<'a> (src/lib.rs): a borrowed view of the raw bytes of a   *)
(* value, with the three "step into" decoders that reinterpret the first   *)
(* machine words of the viewed bytes as a handle (pointer, counts).        *)
(*                                                                         *)
(* The model is a caller program that owns one source value, builds a      *)
(* region from it with new / with_capacity, steps into it any number of    *)
(* times, reads it through the accessors and finally drops the value.      *)
(* Memory is a byte array with a set of currently allocated addresses.     *)
(* usize is WordBytes bytes wide and all usize arithmetic is kept modulo   *)
(* WordMod; bytes are kept modulo ByteMod; the byte order is the one the   *)
(* tests of src/lib.rs assert (least significant byte first).              *)
(***************************************************************************)
EXTENDS Integers, Sequences, FiniteSets, TLC

\* width of usize in bytes on the modelled target (a 16-bit target)
WordBytes == 2
\* number of values of a u8
ByteMod == 256
\* largest number of elements of an array / pushes into a container
MaxLen == 2
\* largest number of step-into calls chained from one new / with_capacity
MaxSteps == 1

RECURSIVE Pow(_, _)
Pow(b, e) == IF e = 0 THEN 1 ELSE b * Pow(b, e - 1)

\* usize::MAX + 1
WordMod == Pow(ByteMod, WordBytes)
\* largest reserved capacity (in elements) of a growable container
MaxCap == MaxLen + 1
\* size_of::<i8>() and size_of::<i16>()
ElemSizes == {1, 2}
\* the values the caller passes as inner_size_bytes: the two real element
\* sizes and one large value for which count * size leaves the usize range
CallerSizes == ElemSizes \cup {WordMod \div 2}
\* what a byte that was never written (or is not allocated) may read as
UninitBytes == {0, 170}

\* ---------------------------------------------------------------- layout
StackBase == 2 * WordBytes
StackMax == IF 3 * WordBytes > 2 * MaxLen THEN 3 * WordBytes ELSE 2 * MaxLen
HeapBase == StackBase + StackMax + WordBytes
HeapMax == 2 * MaxCap
MemSize == HeapBase + HeapMax + WordBytes
Addr == 0 .. (MemSize - 1)

\* ------------------------------------------------------------- encodings
\* v.to_ne_bytes() of an n-byte integer, two's complement
ToNeBytes(v, n) ==
    LET u == v % Pow(ByteMod, n)
    IN  [i \in 1 .. n |-> (u \div Pow(ByteMod, i - 1)) % ByteMod]

\* usize::from_ne_bytes
RECURSIVE FromNeBytes(_)
FromNeBytes(bs) ==
    IF bs = << >> THEN 0 ELSE Head(bs) + ByteMod * FromNeBytes(Tail(bs))

\* the in-memory bytes of a sequence of elements of size s, in index order
RECURSIVE EncodeElems(_, _)
EncodeElems(elems, s) ==
    IF elems = << >> THEN << >>
    ELSE ToNeBytes(Head(elems), s) \o EncodeElems(Tail(elems), s)

\* the in-memory bytes of a handle: its words, in field order
RECURSIVE EncodeWords(_)
EncodeWords(ws) ==
    IF ws = << >> THEN << >>
    ELSE ToNeBytes(Head(ws), WordBytes) \o EncodeWords(Tail(ws))

WriteBytes(m, a, bs) ==
    [x \in Addr |-> IF x >= a /\ x < a + Len(bs) THEN bs[x - a + 1] ELSE m[x]]

VARIABLES
    mem,              \* the bytes of memory, by address
    allocated,        \* the addresses that belong to a live allocation
    source,           \* the caller's value: the T behind the &'a T given to new
    held,             \* the RawMemoryRef the caller holds (NoRegion: none)
    last,             \* the last call: its receiver, argument and outcome
    overflow_checks   \* build profile: are arithmetic overflow checks compiled in

vars == <<mem, allocated, source, held, last, overflow_checks>>

\* ---------------------------------------------------------- source values
\* the caller's value lives at StackBase; a container's buffer at HeapBase
NoSource ==
    [kind |-> "none", s |-> 0, elems |-> << >>, cap |-> 0, size |-> 0,
     heapsize |-> 0, alive |-> FALSE]

\* the values the tests store in elements of size s, and the bytes of text
ElemVals(kind, s) ==
    IF kind \in {"string", "str"} THEN {97, 98}
    ELSE IF s = 1 THEN {5, -5} ELSE {1, 32767}

\* the nonempty sequences of at most n such elements
ElemSeqs(kind, s, n) == UNION {[1 .. k -> ElemVals(kind, s)] : k \in 1 .. n}

\* the words of the value itself, for the kinds that are handles
HandleWords(src) ==
    CASE src.kind \in {"vec", "string"} -> <<HeapBase, src.cap, Len(src.elems)>>
      [] src.kind = "str" -> <<HeapBase, Len(src.elems)>>
      [] src.kind = "box" -> <<HeapBase>>
      [] OTHER -> << >>

\* std::mem::size_of_val(&value)
SizeOfVal(src) ==
    IF src.kind \in {"scalar", "array"} THEN Len(src.elems) * src.s
    ELSE Len(HandleWords(src)) * WordBytes

\* the bytes of the value itself
ValueBytes(src) ==
    IF src.kind \in {"scalar", "array"} THEN EncodeElems(src.elems, src.s)
    ELSE EncodeWords(HandleWords(src))

\* a value comes into existence: its own bytes at StackBase and, for a
\* handle, its buffer at HeapBase (elements first, then the reserved and
\* never written tail, which holds g)
Create(src, g) ==
    LET data == EncodeElems(src.elems, src.s)
        tail == [i \in 1 .. (src.heapsize - Len(data)) |-> g]
        heap == IF src.heapsize = 0 THEN << >> ELSE data \o tail
    IN  /\ source' = src
        /\ mem' = WriteBytes(WriteBytes(mem, StackBase, ValueBytes(src)),
                             HeapBase, heap)
        /\ allocated' = (StackBase .. (StackBase + src.size - 1))
                           \cup (HeapBase .. (HeapBase + src.heapsize - 1))

Value(kind, s, elems, cap) ==
    LET v == [kind |-> kind, s |-> s, elems |-> elems, cap |-> cap, size |-> 0,
              heapsize |-> IF kind \in {"scalar", "array"} THEN 0 ELSE cap * s,
              alive |-> TRUE]
    IN  [v EXCEPT !.size = SizeOfVal(v)]

\* ------------------------------------------------------------ RawMemoryRef
\* struct RawMemoryRef<'a> { inner, length, capacity, phantom }.  phantom is
\* the lifetime parameter: "a" is the borrow of the source value.  op, arg
\* parent and steps are history, not fields of the struct: the constructor
\* that made the region, its argument, the constructor of its receiver and
\* the number of step-into calls since new / with_capacity.
Region(inner, length, capacity, phantom, op, arg, parent, steps) ==
    [inner |-> inner, length |-> length, capacity |-> capacity,
     phantom |-> phantom, op |-> op, arg |-> arg, parent |-> parent,
     steps |-> steps]

NoRegion == Region(0, 0, 0, "none", "none", 0, "none", 0)

\* &'a [u8]: a pointer, a length and the lifetime of the borrow
Slice(ptr, len, lt) == [ptr |-> ptr, len |-> len, lt |-> lt]

NoSlice == Slice(0, 0, "none")

\* the bytes a slice denotes
SliceBytes(sl) == [i \in 1 .. sl.len |-> mem[sl.ptr + i - 1]]

\* new as it would be with size_of::<&T>() taken for size_of_val(inner)
New_SizeOfRef(src) ==
    Region(StackBase, WordBytes, WordBytes, "a", "new", 0, "value", 0)

\* RawMemoryRef::new(&value)
New(src) ==
    LET length == SizeOfVal(src)
    IN  Region(StackBase, length, length, "a", "new", 0, "value", 0)

\* RawMemoryRef::with_capacity(&value, capacity)
WithCapacity(src, capacity) ==
    Region(StackBase, SizeOfVal(src), capacity, "a", "with_capacity", capacity,
           "value", 0)

\* a read of one byte: of an address outside every live allocation it is
\* undefined, and gives the byte g the caller of this operator chose
ReadByte(a, g) == IF a \in allocated THEN mem[a] ELSE g

\* *(a as *const usize)
ReadWord(a, g) == FromNeBytes([i \in 1 .. WordBytes |-> ReadByte(a + i - 1, g)])

\* are words 0 .. n-1 at address a inside live allocations
WordsAllocated(a, n) == (a .. (a + n * WordBytes - 1)) \subseteq allocated

\* std::slice::from_raw_parts(ptr, len) as a &[usize]
FromRawParts(ptr, len) == [ptr |-> ptr, len |-> len]

\* usizes.get(i).is_some()
GetIsSome(usizes, i) == i < usizes.len

\* a * b on usize: the product when it is in range; otherwise a panic where
\* overflow checks are compiled in, and the wrapped product where not
Mul(a, b) ==
    IF a * b < WordMod THEN [ok |-> TRUE, val |-> a * b]
    ELSE IF overflow_checks THEN [ok |-> FALSE, val |-> 0]
    ELSE [ok |-> TRUE, val |-> (a * b) % WordMod]

\* the outcome of a step-into call
Returned(out, words) ==
    [status |-> "ok", msg |-> "", out |-> out, words |-> words]

Panicked(msg, words) ==
    [status |-> "panic", msg |-> msg, out |-> NoRegion, words |-> words]

\* self.into_inner(inner_size_bytes); g is what an undefined read gives
IntoInner(self, inner_size_bytes, g) ==
    LET p == ReadWord(self.inner, g)
    IN  Returned(Region(p, inner_size_bytes, inner_size_bytes, self.phantom,
                        "into_inner", inner_size_bytes, self.op,
                        self.steps + 1),
                 <<p>>)

\* into_inner_with_length as it would be if it returned RawMemoryRef<'static>
\* instead of Self
IntoInnerWithLength_Static(self, inner_size_bytes, g) ==
    LET p == ReadWord(self.inner, g)
        inner_size == ReadWord(self.inner + WordBytes, g)
        length == Mul(inner_size, inner_size_bytes)
    IN  IF ~length.ok
        THEN Panicked("attempt to multiply with overflow", <<p, inner_size>>)
        ELSE Returned(Region(p, length.val, length.val, "static",
                             "into_inner_with_length", inner_size_bytes,
                             self.op, self.steps + 1),
                      <<p, inner_size>>)

\* into_inner_with_length as it would be with the element count taken for
\* the byte count
IntoInnerWithLength_Unscaled(self, inner_size_bytes, g) ==
    LET p == ReadWord(self.inner, g)
        inner_size == ReadWord(self.inner + WordBytes, g)
    IN  Returned(Region(p, inner_size, inner_size, self.phantom,
                        "into_inner_with_length", inner_size_bytes, self.op,
                        self.steps + 1),
                 <<p, inner_size>>)

\* self.into_inner_with_length(inner_size_bytes)
IntoInnerWithLength(self, inner_size_bytes, g) ==
    LET usizes == FromRawParts(self.inner, 2)
        p == ReadWord(self.inner, g)
        inner_size == ReadWord(usizes.ptr + WordBytes, g)
        length == Mul(inner_size, inner_size_bytes)
        capacity == Mul(inner_size, inner_size_bytes)
    IN  IF ~GetIsSome(usizes, 1)
        THEN Panicked("pointer type given should contain a length", << >>)
        ELSE IF ~length.ok \/ ~capacity.ok
        THEN Panicked("attempt to multiply with overflow", <<p, inner_size>>)
        ELSE Returned(Region(p, length.val, capacity.val, self.phantom,
                             "into_inner_with_length", inner_size_bytes,
                             self.op, self.steps + 1),
                      <<p, inner_size>>)

\* into_inner_with_length_and_capacity as it would be with the two count
\* words taken in the other order
IntoInnerWithLengthAndCapacity_Swapped(self, inner_size_bytes, g) ==
    LET p == ReadWord(self.inner, g)
        inner_size == ReadWord(self.inner + WordBytes, g)
        inner_capacity == ReadWord(self.inner + 2 * WordBytes, g)
        length == Mul(inner_size, inner_size_bytes)
        capacity == Mul(inner_capacity, inner_size_bytes)
    IN  IF ~length.ok \/ ~capacity.ok
        THEN Panicked("attempt to multiply with overflow",
                      <<p, inner_size, inner_capacity>>)
        ELSE Returned(Region(p, length.val, capacity.val, self.phantom,
                             "into_inner_with_length_and_capacity",
                             inner_size_bytes, self.op, self.steps + 1),
                      <<p, inner_size, inner_capacity>>)

\* self.into_inner_with_length_and_capacity(inner_size_bytes)
IntoInnerWithLengthAndCapacity(self, inner_size_bytes, g) ==
    LET usizes == FromRawParts(self.inner, 3)
        p == ReadWord(self.inner, g)
        inner_capacity == ReadWord(usizes.ptr + WordBytes, g)
        inner_size == ReadWord(usizes.ptr + 2 * WordBytes, g)
        length == Mul(inner_size, inner_size_bytes)
        capacity == Mul(inner_capacity, inner_size_bytes)
    IN  IF ~GetIsSome(usizes, 1)
        THEN Panicked("pointer type given should contain a capacity", << >>)
        ELSE IF ~GetIsSome(usizes, 2)
        THEN Panicked("pointer type given should contain a length", << >>)
        ELSE IF ~length.ok \/ ~capacity.ok
        THEN Panicked("attempt to multiply with overflow",
                      <<p, inner_capacity, inner_size>>)
        ELSE Returned(Region(p, length.val, capacity.val, self.phantom,
                             "into_inner_with_length_and_capacity",
                             inner_size_bytes, self.op, self.steps + 1),
                      <<p, inner_capacity, inner_size>>)

\* allocated_bytes as it would be with the length taken for the capacity
AllocatedBytes_Length(self) == Slice(self.inner, self.length, self.phantom)

\* self.allocated_bytes()
AllocatedBytes(self) == Slice(self.inner, self.capacity, self.phantom)

\* self.initialized_bytes()
InitializedBytes(self) == Slice(self.inner, self.length, self.phantom)

\* self.len()
RegionLen(self) == self.length

\* self.capacity()
RegionCapacity(self) == self.capacity

\* ------------------------------------------------------------------ calls
Call(op, status, msg, self, arg, out, slice, ret, words, oob) ==
    [op |-> op, status |-> status, msg |-> msg, self |-> self, arg |-> arg,
     out |-> out, slice |-> slice, ret |-> ret, words |-> words, oob |-> oob]

\* a call of the environment, which involves no region
Plain(op) == Call(op, "ok", "", NoRegion, 0, NoRegion, NoSlice, 0, << >>, FALSE)

\* the process runs until a panic or a fault ends it
Running == last.status = "ok"

Init ==
    /\ mem = [a \in Addr |-> 0]
    /\ allocated = {}
    /\ source = NoSource
    /\ held = NoRegion
    /\ last = Plain("start")
    /\ overflow_checks \in BOOLEAN

\* let value = 5i8;  let value = [1i16, 2, 3, i16::MAX];
LetValue ==
    \E s \in ElemSizes : \E elems \in ElemSeqs("array", s, MaxLen) :
        /\ Running /\ source.kind = "none"
        /\ Create(Value(IF Len(elems) = 1 THEN "scalar" ELSE "array", s, elems,
                        0), 0)
        /\ last' = Plain("let")
        /\ UNCHANGED <<held, overflow_checks>>

\* let value = "abc";  (a &str: pointer and length)
LetStr ==
    \E elems \in ElemSeqs("str", 1, MaxLen) :
        /\ Running /\ source.kind = "none"
        /\ Create(Value("str", 1, elems, Len(elems)), 0)
        /\ last' = Plain("let")
        /\ UNCHANGED <<held, overflow_checks>>

\* a value that is one pointer to a buffer, the input into_inner is for
LetBox ==
    \E s \in ElemSizes : \E elems \in ElemSeqs("box", s, MaxLen) :
        /\ Running /\ source.kind = "none"
        /\ Create(Value("box", s, elems, Len(elems)), 0)
        /\ last' = Plain("let")
        /\ UNCHANGED <<held, overflow_checks>>

\* Vec::with_capacity(c) and String::with_capacity(c): nothing pushed yet,
\* the reserved buffer holds whatever g it held before
LetWithCapacity ==
    \E kind \in {"vec", "string"} : \E s \in ElemSizes : \E c \in 1 .. MaxCap :
      \E g \in UninitBytes :
        /\ Running /\ source.kind = "none"
        /\ kind = "string" => s = 1
        /\ Create(Value(kind, s, << >>, c), g)
        /\ last' = Plain("let")
        /\ UNCHANGED <<held, overflow_checks>>

\* value.push(x) within the reserved capacity; it needs &mut value, which
\* the borrow held by a live RawMemoryRef<'a> excludes
Push ==
    \E x \in ElemVals(source.kind, source.s) :
        /\ Running /\ source.alive
        /\ source.kind \in {"vec", "string"}
        /\ Len(source.elems) < source.cap
        /\ held.phantom # "a"
        /\ source' = [source EXCEPT !.elems = Append(@, x)]
        /\ mem' = WriteBytes(
                    WriteBytes(mem, HeapBase + Len(source.elems) * source.s,
                               ToNeBytes(x, source.s)),
                    StackBase + 2 * WordBytes,
                    ToNeBytes(Len(source.elems) + 1, WordBytes))
        /\ last' = Plain("push")
        /\ UNCHANGED <<allocated, held, overflow_checks>>

\* drop(value): the value and the buffer it owns are freed.  A program that
\* moves the value while a RawMemoryRef<'a> borrowing it is still used does
\* not compile, so the step exists only when no such region is held
DropValue ==
    /\ Running /\ source.alive
    /\ held.phantom # "a"
    /\ source' = [source EXCEPT !.alive = FALSE]
    /\ allocated' = {}
    /\ last' = Plain("drop")
    /\ UNCHANGED <<mem, held, overflow_checks>>

\* the held region goes out of scope
Forget ==
    /\ Running /\ held # NoRegion
    /\ held' = NoRegion
    /\ last' = Plain("forget")
    /\ UNCHANGED <<mem, allocated, source, overflow_checks>>

\* let r = RawMemoryRef::new(&value);
CallNew ==
    /\ Running /\ source.alive /\ held = NoRegion
    /\ held' = New(source)
    /\ last' = Call("new", "ok", "", NoRegion, 0, held', NoSlice, 0, << >>, FALSE)
    /\ UNCHANGED <<mem, allocated, source, overflow_checks>>

\* let r = unsafe { RawMemoryRef::with_capacity(&value, capacity) };
CallWithCapacity ==
    \E capacity \in {WordBytes} :
        /\ Running /\ source.alive /\ held = NoRegion
        /\ held' = WithCapacity(source, capacity)
        /\ last' = Call("with_capacity", "ok", "", NoRegion, capacity, held',
                        NoSlice, 0, << >>, FALSE)
        /\ UNCHANGED <<mem, allocated, source, overflow_checks>>

\* what the reads of a step-into call may do: <<fault, g>>.  When every word
\* it reads is allocated the reads are defined; otherwise the process may
\* fault, or the reads give some byte g for each unallocated address
ReadOutcomes(self, n) ==
    IF WordsAllocated(self.inner, n) THEN {<<FALSE, 0>>}
    ELSE {<<TRUE, 0>>} \cup {<<FALSE, g>> : g \in UninitBytes}

\* does one of the n words read lie outside [inner, inner + capacity)
ReadsPastRegion(self, n) == n * WordBytes > self.capacity

\* the step-into call op(arg) on the held region reads n words and, when
\* its reads do not fault, ends as r; the caller keeps the region returned
StepInto(op, arg, n, fault, r) ==
    /\ Running /\ held # NoRegion /\ held.steps < MaxSteps
    /\ IF r.status = "panic" /\ r.words = << >>
       THEN /\ last' = Call(op, "panic", r.msg, held, arg, NoRegion, NoSlice, 0,
                            << >>, FALSE)
            /\ held' = held
       ELSE IF fault
       THEN /\ last' = Call(op, "segv", "", held, arg, NoRegion, NoSlice, 0,
                            << >>, ReadsPastRegion(held, n))
            /\ held' = held
       ELSE /\ last' = Call(op, r.status, r.msg, held, arg, r.out, NoSlice, 0,
                            r.words, ReadsPastRegion(held, n))
            /\ held' = IF r.status = "ok" THEN r.out ELSE held
    /\ UNCHANGED <<mem, allocated, source, overflow_checks>>

CallIntoInner ==
    \E b \in CallerSizes : \E o \in ReadOutcomes(held, 1) :
        StepInto("into_inner", b, 1, o[1], IntoInner(held, b, o[2]))

CallIntoInnerWithLength ==
    \E s \in CallerSizes : \E o \in ReadOutcomes(held, 2) :
        StepInto("into_inner_with_length", s, 2, o[1],
                 IntoInnerWithLength(held, s, o[2]))

CallIntoInnerWithLengthAndCapacity ==
    \E s \in CallerSizes : \E o \in ReadOutcomes(held, 3) :
        StepInto("into_inner_with_length_and_capacity", s, 3, o[1],
                 IntoInnerWithLengthAndCapacity(held, s, o[2]))

\* an accessor call on the held region
Access(op, slice, ret) ==
    /\ Running /\ held # NoRegion
    /\ last' = Call(op, "ok", "", held, 0, NoRegion, slice, ret, << >>, FALSE)
    /\ UNCHANGED <<mem, allocated, source, held, overflow_checks>>

CallAllocatedBytes == Access("allocated_bytes", AllocatedBytes(held), 0)

CallInitializedBytes == Access("initialized_bytes", InitializedBytes(held), 0)

CallLen == Access("len", NoSlice, RegionLen(held))

CallCapacity == Access("capacity", NoSlice, RegionCapacity(held))

Next ==
    \/ LetValue
    \/ LetStr
    \/ LetBox
    \/ LetWithCapacity
    \/ Push
    \/ DropValue
    \/ Forget
    \/ CallNew
    \/ CallWithCapacity
    \/ CallIntoInner
    \/ CallIntoInnerWithLength
    \/ CallIntoInnerWithLengthAndCapacity
    \/ CallAllocatedBytes
    \/ CallInitializedBytes
    \/ CallLen
    \/ CallCapacity

Spec == Init /\ [][Next]_vars

\* ----------------------------------------------------------------- claims
IWL == "into_inner_with_length"
IWLC == "into_inner_with_length_and_capacity"

\* the messages of the two expect() calls
ExpectMessages ==
    {"pointer type given should contain a length",
     "pointer type given should contain a capacity"}

\* the number of handle words a step-into mode reads
WordsOf(op) == IF op = IWLC THEN 3 ELSE IF op = IWL THEN 2 ELSE 1

\* the value is a growable container: its handle is pointer, capacity, length
IsContainer == source.kind \in {"vec", "string"}

\* r was made by new(&value).op(s) with s the element size of the value
SteppedFromNew(r, op) ==
    r.op = op /\ r.parent = "new" /\ r.arg = source.s

\* C1: into_inner_with_length on a region of less than 2 words, and
\* into_inner_with_length_and_capacity on a region of less than 3 words,
\* ends in the descriptive panic of expect(), returns no region and reads no
\* metadata word outside the region
C1_ShortHandlePanics ==
    (last.op \in {IWL, IWLC} /\ last.self.capacity < WordsOf(last.op) * WordBytes)
        => /\ last.status = "panic"
           /\ last.msg \in ExpectMessages
           /\ last.out = NoRegion
           /\ ~last.oob

\* C2: no region is held, and no allocated_bytes / initialized_bytes call
\* is made, once the source value is destroyed: neither on a region made by
\* new nor on one stepped into from it
C2_NoReadAfterDrop ==
    /\ held # NoRegion => source.alive
    /\ last.op \in {"allocated_bytes", "initialized_bytes"} => source.alive

C2_Witness ==
    /\ last.op = "allocated_bytes"
    /\ source.kind = "vec" /\ source.alive
    /\ SteppedFromNew(last.self, IWL)
    /\ last.slice.ptr = HeapBase /\ last.slice.lt = "a"

\* C3: new(&v) returns a region with len() == capacity() == the size of v
\* (k * s for k elements of size s) whose allocated_bytes() are the bytes of
\* the native representation of v, elements in index order; the i8 -5 gives
\* the one byte 251
C3_NewViewsValueBytes ==
    /\ last.op = "new" =>
          /\ last.status = "ok"
          /\ RegionLen(last.out) = Len(ValueBytes(source))
          /\ RegionCapacity(last.out) = Len(ValueBytes(source))
          /\ SliceBytes(AllocatedBytes(last.out)) = ValueBytes(source)
          /\ source.kind \in {"scalar", "array"} =>
                /\ RegionLen(last.out) = Len(source.elems) * source.s
                /\ SliceBytes(AllocatedBytes(last.out))
                      = EncodeElems(source.elems, source.s)
    /\ (last.op = "allocated_bytes" /\ last.self.op = "new") =>
          /\ last.slice.len = Len(ValueBytes(source))
          /\ SliceBytes(last.slice) = ValueBytes(source)
          /\ (source.kind = "scalar" /\ source.s = 1 /\ source.elems = <<-5>>)
                => SliceBytes(last.slice) = <<251>>

C3_Witness ==
    /\ last.op = "allocated_bytes" /\ last.self.op = "new"
    /\ source.kind = "array" /\ source.s = 2 /\ source.elems = <<1, 32767>>
    /\ SliceBytes(last.slice) = <<1, 0, 255, 127>>

\* C4: into_inner_with_length_and_capacity(s) on a region whose first three
\* words are (p, c, l) returns a region with origin p, capacity() == c * s
\* and len() == l * s
C4_TripleWordOrder ==
    (last.op = IWLC /\ last.status = "ok"
        /\ last.self.capacity >= 3 * WordBytes)
        => /\ Len(last.words) = 3
           /\ last.out.inner = last.words[1]
           /\ RegionCapacity(last.out) = last.words[2] * last.arg
           /\ RegionLen(last.out) = last.words[3] * last.arg

\* C5: into_inner_with_length(s) on a region whose first two words are
\* (p, n) returns a region with origin p and len() == capacity() == n * s,
\* reading two words; into_inner(b) on a region whose first word is p
\* returns a region with origin p and len() == capacity() == b, reading one
C5_PairAndPointerOnly ==
    /\ (last.op = IWL /\ last.status = "ok"
          /\ last.self.capacity >= 2 * WordBytes)
          => /\ Len(last.words) = 2
             /\ last.out.inner = last.words[1]
             /\ RegionLen(last.out) = last.words[2] * last.arg
             /\ RegionCapacity(last.out) = last.words[2] * last.arg
    /\ (last.op = "into_inner" /\ last.status = "ok"
          /\ last.self.capacity >= WordBytes)
          => /\ Len(last.words) = 1
             /\ last.out.inner = last.words[1]
             /\ RegionLen(last.out) = last.arg
             /\ RegionCapacity(last.out) = last.arg

\* C6: allocated_bytes() is capacity() bytes and initialized_bytes() is
\* len() bytes, both starting at the origin of the region; len() and
\* capacity() return the stored length and capacity; none of the four
\* changes the region or the memory
C6_AccessorsArePure ==
    [][(last'.op \in {"allocated_bytes", "initialized_bytes", "len", "capacity"})
         => /\ held' = held /\ mem' = mem /\ allocated' = allocated
            /\ source' = source
            /\ last'.self = held /\ last'.status = "ok"
            /\ last'.op = "allocated_bytes" =>
                  /\ last'.slice.ptr = held.inner
                  /\ last'.slice.len = held.capacity
                  /\ last'.slice.len = RegionCapacity(held)
            /\ last'.op = "initialized_bytes" =>
                  /\ last'.slice.ptr = held.inner
                  /\ last'.slice.len = held.length
                  /\ last'.slice.len = RegionLen(held)
            /\ last'.op = "len" => last'.ret = held.length
            /\ last'.op = "capacity" => last'.ret = held.capacity]_vars

C6_Witness ==
    /\ last.op = "allocated_bytes"
    /\ last.self.capacity > last.self.length
    /\ last.self.length > 0
    /\ last.slice.len = last.self.capacity
    /\ last.slice.ptr = HeapBase

\* C7: for a growable array filled to its capacity by k pushes of elements
\* of size s, new(&array).into_inner_with_length(s) has len() == capacity()
\* == k * s and its initialized_bytes() are the pushed elements, in push
\* order
C7_RoundTrip ==
    (IsContainer /\ source.cap = Len(source.elems)) =>
        /\ (last.op = IWL /\ last.self.op = "new" /\ last.arg = source.s) =>
              /\ last.status = "ok"
              /\ RegionLen(last.out) = Len(source.elems) * source.s
              /\ RegionCapacity(last.out) = Len(source.elems) * source.s
        /\ (last.op = "initialized_bytes" /\ SteppedFromNew(last.self, IWL)) =>
              /\ last.slice.len = Len(source.elems) * source.s
              /\ SliceBytes(last.slice) = EncodeElems(source.elems, source.s)

C7_Witness ==
    /\ source.kind = "vec" /\ source.s = 2 /\ source.cap = 2
    /\ source.elems = <<32767, 1>>
    /\ last.op = "initialized_bytes" /\ SteppedFromNew(last.self, IWL)
    /\ SliceBytes(last.slice) = <<255, 127, 1, 0>>

\* C8: for a growable array or owned string reserved for c elements of size
\* s and given k < c pushes, new(&container)
\* .into_inner_with_length_and_capacity(s) has len() == k * s and capacity()
\* == c * s; initialized_bytes() are the k pushed elements in push order;
\* allocated_bytes() is c * s bytes that start with the same k * s bytes and
\* end in a tail of (c - k) * s bytes
C8_CapacityDivergence ==
    LET k == Len(source.elems)
        c == source.cap
        s == source.s
    IN  (IsContainer /\ k < c) =>
          /\ (last.op = IWLC /\ last.self.op = "new" /\ last.arg = s) =>
                /\ last.status = "ok"
                /\ RegionLen(last.out) = k * s
                /\ RegionCapacity(last.out) = c * s
          /\ (last.op = "initialized_bytes" /\ SteppedFromNew(last.self, IWLC)) =>
                /\ last.slice.len = k * s
                /\ SliceBytes(last.slice) = EncodeElems(source.elems, s)
          /\ (last.op = "allocated_bytes" /\ SteppedFromNew(last.self, IWLC)) =>
                /\ last.slice.len = c * s
                /\ SubSeq(SliceBytes(last.slice), 1, k * s)
                      = EncodeElems(source.elems, s)
                /\ Len(SubSeq(SliceBytes(last.slice), k * s + 1,
                              last.slice.len)) = (c - k) * s

C8_Witness ==
    /\ source.kind = "string" /\ source.cap = 3 /\ source.elems = <<97, 98>>
    /\ last.op = "allocated_bytes" /\ SteppedFromNew(last.self, IWLC)
    /\ last.slice.len = 3
    /\ SubSeq(SliceBytes(last.slice), 1, 2) = <<97, 98>>
    /\ SliceBytes(last.slice)[3] = 170

\* C9: a region made by new, into_inner or into_inner_with_length has
\* capacity() == len(), and a region made by
\* into_inner_with_length_and_capacity from the handle of a container (whose
\* capacity count is at least its length count), with any element size, has
\* capacity() >= len()
C9_CapacityAtLeastLength ==
    /\ held.op \in {"new", "into_inner", IWL}
          => RegionCapacity(held) = RegionLen(held)
    /\ (held.op = IWLC /\ held.parent = "new" /\ IsContainer
          /\ source.cap >= Len(source.elems))
          => RegionCapacity(held) >= RegionLen(held)

\* C10: the len() and capacity() that into_inner_with_length and
\* into_inner_with_length_and_capacity return are the exact products of the
\* count words read from the region and the element size given, never the
\* product modulo the word range
C10_ExactProduct ==
    /\ (last.op = IWL /\ last.status = "ok" /\ ~last.oob) =>
          /\ RegionLen(last.out) = last.words[2] * last.arg
          /\ RegionCapacity(last.out) = last.words[2] * last.arg
    /\ (last.op = IWLC /\ last.status = "ok" /\ ~last.oob) =>
          /\ RegionLen(last.out) = last.words[3] * last.arg
          /\ RegionCapacity(last.out) = last.words[2] * last.arg

\* ------------------------------------------- what remains of C4, C5 and C9
\* every product the last step-into call formed was inside the usize range
ProductsInRange ==
    \A i \in 2 .. Len(last.words) : last.words[i] * last.arg < WordMod

\* the word order of C4 wherever the two products are in range
C4_InRange == ProductsInRange => C4_TripleWordOrder

\* the results of C5 wherever the product is in range
C5_InRange == ProductsInRange => C5_PairAndPointerOnly

\* the order of C9 wherever the products that made the held region were in
\* range
C9_InRange ==
    (last.out = held /\ ProductsInRange) => C9_CapacityAtLeastLength
====
